---- MODULE Spec2Model ----
(***************************************************************************)
(* A model of rust-proxy-server: the tiered cache store (cache.rs), the    *)
(* resilient fetch (utils.rs), the range merge engine (handler/range.rs),  *)
(* the response helpers (handler/response.rs) and the request orchestrator *)
(* (server.rs).                                                            *)
(*                                                                         *)
(* Every async function is cut at its .await points: one action per piece  *)
(* of code between two suspension points.  A task is a process p with a    *)
(* program counter pc[p] and locals loc[p].                                *)
(*                                                                         *)
(* Option<T> is a sequence of length 0 (None) or 1 (Some).  Bytes are      *)
(* naturals, a body or a content is a sequence of bytes.                   *)
(***************************************************************************)
EXTENDS Integers, Sequences, FiniteSets, TLC

VARIABLES
    memory_cache,   \* ProxyCache.memory_cache: LruCache, most recently used first
    cache_dir,      \* ProxyCache.cache_dir: per key the content blob and the .meta record
    pc,             \* per task: the suspension point it is at
    loc,            \* per task: the locals of the functions it is in
    prev,           \* per task: the call it finished before the current one
    last_used,      \* per key: the number of the last get or set call on it
    served          \* calls and inbound requests accepted so far

vars == <<memory_cache, cache_dir, pc, loc, prev, last_used, served>>

(***************************************************************************)
(* Constants of the program and bounds of the model.                       *)
(***************************************************************************)
\* constants.rs:2 (20 in the source; the model keeps a small memory tier)
MAX_CACHE_SIZE == 2
\* constants.rs:4 (100 MiB in the source; the model counts single bytes)
MAX_FILE_SIZE == 2
\* constants.rs:10
MAX_RETRIES == 3
\* inbound requests one behaviour runs
MaxRequests == 2
\* calls of ProxyCache::get and ProxyCache::set one behaviour runs
MaxCalls == 4
\* the largest byte offset an inbound Range header names
MaxOffset == 2
\* calls of get and set one behaviour runs over a damaged cache directory
MaxDamagedCalls == 2
\* the largest byte offset a Range header names in the concurrent proxy
MaxRaceOffset == 3
\* calls of get and set one behaviour of the store under two callers runs
MaxStoreRaceCalls == 2

None == <<>>
Some(x) == <<x>>
IsSome(o) == Len(o) = 1
Unwrap(o) == o[1]

Procs == {1, 2}
SeqProcs == {1}

\* one key more than the memory tier holds, so that an insertion can evict
Keys == 1 .. (MAX_CACHE_SIZE + 1)

Min(a, b) == IF a < b THEN a ELSE b

\* content[lo..hi] with 0-based inclusive offsets, as the byte offsets of a range
Bytes(content, lo, hi) == SubSeq(content, lo + 1, hi + 1)

(***************************************************************************)
(* cache.rs: CacheMeta, CacheEntry                                         *)
(***************************************************************************)
CacheMeta(ct, ic, ts) == [content_type |-> ct, is_complete |-> ic, total_size |-> ts]
CacheEntry(c, m) == [content |-> c, meta |-> m]

\* serde_json::to_string(&entry.meta): the three fields in declaration order
ToJson(meta) == <<meta.content_type, meta.is_complete, meta.total_size>>

\* a parser that falls back to default metadata on a malformed record: C13 has
\* to tell it from the code's
FromJsonLenient(text) ==
    IF Len(text) = 3
    THEN <<[content_type |-> text[1], is_complete |-> text[2], total_size |-> text[3]]>>
    ELSE <<[content_type |-> "application/octet-stream", is_complete |-> FALSE,
            total_size |-> <<>>]>>

\* serde_json::from_str::<CacheMeta>: Err unless the text holds the three fields
FromJson(text) ==
    IF Len(text) = 3
    THEN Some(CacheMeta(text[1], text[2], text[3]))
    ELSE None

(***************************************************************************)
(* lru::LruCache as ProxyCache uses it: get and put both refresh recency,  *)
(* put beyond the capacity drops the least recently used pair.             *)
(***************************************************************************)
LruIndex(cache, key) ==
    IF \E i \in 1 .. Len(cache) : cache[i].key = key
    THEN CHOOSE i \in 1 .. Len(cache) : cache[i].key = key
    ELSE 0

LruContains(cache, key) == LruIndex(cache, key) # 0

LruRemove(cache, i) == SubSeq(cache, 1, i - 1) \o SubSeq(cache, i + 1, Len(cache))

\* LruCache::peek
LruPeek(cache, key) ==
    IF LruContains(cache, key) THEN Some(cache[LruIndex(cache, key)].entry) ELSE None

\* LruCache::get: the cache after the lookup (the hit moves to the front)
LruTouch(cache, key) ==
    IF LruContains(cache, key)
    THEN <<cache[LruIndex(cache, key)]>> \o LruRemove(cache, LruIndex(cache, key))
    ELSE cache

\* the pair LruCache::put drops when the key is new and the cache is full
LruVictim(cache) == Len(cache)

\* a put that keeps the entry a key already has: C18 has to tell it from the
\* code's
LruPutIfAbsent(cache, key, entry) ==
    LET pair == [key |-> key, entry |-> entry] IN
    IF LruContains(cache, key)
    THEN <<cache[LruIndex(cache, key)]>> \o LruRemove(cache, LruIndex(cache, key))
    ELSE IF Len(cache) >= MAX_CACHE_SIZE
         THEN <<pair>> \o LruRemove(cache, LruVictim(cache))
         ELSE <<pair>> \o cache

\* LruCache::put
LruPut(cache, key, entry) ==
    LET pair == [key |-> key, entry |-> entry] IN
    IF LruContains(cache, key)
    THEN <<pair>> \o LruRemove(cache, LruIndex(cache, key))
    ELSE IF Len(cache) >= MAX_CACHE_SIZE
         THEN <<pair>> \o LruRemove(cache, LruVictim(cache))
         ELSE <<pair>> \o cache

\* the size threshold of the memory tier (cache.rs:62 and cache.rs:75)
FitsMemory(content) == Len(content) <= MAX_FILE_SIZE

NoFiles == [blob |-> None, meta |-> None]

(***************************************************************************)
(* Locals of a task.                                                       *)
(***************************************************************************)
LocInit == [
    op         |-> "none",  \* the call the task runs: get, set or request
    key        |-> 0,       \* cache_key
    ret        |-> "done",  \* where ProxyCache::get / set returns to
    entry      |-> None,    \* the entry handed to set
    meta       |-> None,    \* get: the parsed CacheMeta
    got        |-> None,    \* get: Option<CacheEntry> returned (cached_entry)
    set_ok     |-> TRUE,    \* set: Ok(()) or Err
    uri        |-> 0,       \* req.uri()
    range      |-> None,    \* req.headers().get(RANGE)
    freq       |-> None,    \* fetch_with_retry: the request it sends
    fret       |-> "done",  \* where fetch_with_retry returns to
    retries    |-> 0,       \* fetch_with_retry: retries
    attempts   |-> 0,       \* requests the current fetch put on the wire
    sleeps     |-> 0,       \* delays the current fetch waited
    resp       |-> None,    \* the origin response a fetch returned
    kept       |-> None,    \* the GET response kept across the HEAD probe
    total      |-> 0,       \* handle_request: total_size
    origin_log |-> <<>>,    \* the fetches of this call: what was sent, what came back
    response   |-> None     \* what the call returned to the client
]

Return(p, l) ==
    /\ pc' = [pc EXCEPT ![p] = l.ret]
    /\ loc' = [loc EXCEPT ![p] = l]

(***************************************************************************)
(* cache.rs: ProxyCache::get                                               *)
(***************************************************************************)
\* cache.rs:47-49: the memory tier under its lock
GetMemory(p) ==
    /\ pc[p] = "get"
    /\ LET key == loc[p].key IN
       IF LruContains(memory_cache, key)
       THEN /\ memory_cache' = LruTouch(memory_cache, key)
            /\ Return(p, [loc[p] EXCEPT !.got = LruPeek(memory_cache, key)])
       ELSE /\ pc' = [pc EXCEPT ![p] = "get_exists"]
            /\ UNCHANGED <<memory_cache, loc>>
    /\ UNCHANGED <<cache_dir, prev, last_used, served>>

\* cache.rs:52-53: file_path.exists()
GetExists(p) ==
    /\ pc[p] = "get_exists"
    /\ IF IsSome(cache_dir[loc[p].key].blob)
       THEN /\ pc' = [pc EXCEPT ![p] = "get_meta"]
            /\ UNCHANGED loc
       ELSE Return(p, [loc[p] EXCEPT !.got = None])
    /\ UNCHANGED <<memory_cache, cache_dir, prev, last_used, served>>

\* cache.rs:54-55: the .meta record is read and parsed
GetReadMeta(p) ==
    /\ pc[p] = "get_meta"
    /\ LET files == cache_dir[loc[p].key]
           meta == IF IsSome(files.meta) THEN FromJson(Unwrap(files.meta)) ELSE None
       IN
       IF IsSome(meta)
       THEN /\ pc' = [pc EXCEPT ![p] = "get_read"]
            /\ loc' = [loc EXCEPT ![p].meta = meta]
       ELSE Return(p, [loc[p] EXCEPT !.got = None])
    /\ UNCHANGED <<memory_cache, cache_dir, prev, last_used, served>>

\* cache.rs:56-60: the content blob is read
GetReadContent(p) ==
    /\ pc[p] = "get_read"
    /\ LET files == cache_dir[loc[p].key] IN
       IF IsSome(files.blob)
       THEN /\ pc' = [pc EXCEPT ![p] = "get_promote"]
            /\ loc' = [loc EXCEPT ![p].got =
                          Some(CacheEntry(Unwrap(files.blob), Unwrap(loc[p].meta))),
                       ![p].meta = None]
       ELSE Return(p, [loc[p] EXCEPT !.got = None, !.meta = None])
    /\ UNCHANGED <<memory_cache, cache_dir, prev, last_used, served>>

\* cache.rs:61-65: the entry is promoted into the memory tier and returned
GetPromote(p) ==
    /\ pc[p] = "get_promote"
    /\ LET entry == Unwrap(loc[p].got) IN
       memory_cache' = IF FitsMemory(entry.content)
                       THEN LruPut(memory_cache, loc[p].key, entry)
                       ELSE memory_cache
    /\ Return(p, loc[p])
    /\ UNCHANGED <<cache_dir, prev, last_used, served>>

(***************************************************************************)
(* cache.rs: ProxyCache::set                                               *)
(***************************************************************************)
\* cache.rs:75-77: the memory tier under its lock
SetMemory(p) ==
    /\ pc[p] = "set"
    /\ LET entry == Unwrap(loc[p].entry) IN
       memory_cache' = IF FitsMemory(entry.content)
                       THEN LruPut(memory_cache, loc[p].key, entry)
                       ELSE memory_cache
    /\ pc' = [pc EXCEPT ![p] = "set_content"]
    /\ UNCHANGED <<cache_dir, loc, prev, last_used, served>>

\* cache.rs:80-81: fs::write of the content blob; an error returns from set
SetWriteContent(p) ==
    /\ pc[p] = "set_content"
    /\ \E ok \in BOOLEAN :
          IF ok
          THEN /\ cache_dir' = [cache_dir EXCEPT ![loc[p].key].blob =
                                    Some(Unwrap(loc[p].entry).content)]
               /\ pc' = [pc EXCEPT ![p] = "set_meta"]
               /\ UNCHANGED loc
          ELSE /\ Return(p, [loc[p] EXCEPT !.set_ok = FALSE])
               /\ UNCHANGED cache_dir
    /\ UNCHANGED <<memory_cache, prev, last_used, served>>

\* cache.rs:82-86: fs::write of the .meta record, then Ok(())
SetWriteMeta(p) ==
    /\ pc[p] = "set_meta"
    /\ \E ok \in BOOLEAN :
          IF ok
          THEN /\ cache_dir' = [cache_dir EXCEPT ![loc[p].key].meta =
                                    Some(ToJson(Unwrap(loc[p].entry).meta))]
               /\ Return(p, [loc[p] EXCEPT !.set_ok = TRUE])
          ELSE /\ Return(p, [loc[p] EXCEPT !.set_ok = FALSE])
               /\ UNCHANGED cache_dir
    /\ UNCHANGED <<memory_cache, prev, last_used, served>>

(***************************************************************************)
(* The callers of the store: a task calls get(key) or set(key, entry) and  *)
(* waits for it to return, as handle_request does.                         *)
(***************************************************************************)
\* a body above the size threshold of the memory tier
Oversized == [i \in 1 .. (MAX_FILE_SIZE + 1) |-> 9]

CallEntries == {
    CacheEntry(<<1>>, CacheMeta("text/plain", TRUE, Some(1))),
    CacheEntry(<<2, 2>>, CacheMeta("video/mp4", FALSE, None)),
    CacheEntry(Oversized, CacheMeta("video/mp4", FALSE, Some(MAX_FILE_SIZE + 2)))
}

Idle(p) == pc[p] \in {"idle", "done"}

\* the call task p has finished: what was asked and what came back
Finished(p) ==
    [op |-> loc[p].op, key |-> loc[p].key, entry |-> loc[p].entry,
     got |-> loc[p].got, ok |-> loc[p].set_ok]

CallGet(p) ==
    /\ Idle(p)
    /\ served < MaxCalls
    /\ \E key \in Keys :
          /\ loc' = [loc EXCEPT ![p] = [LocInit EXCEPT !.op = "get", !.key = key]]
          /\ last_used' = [last_used EXCEPT ![key] = served + 1]
    /\ pc' = [pc EXCEPT ![p] = "get"]
    /\ prev' = [prev EXCEPT ![p] = Finished(p)]
    /\ served' = served + 1
    /\ UNCHANGED <<memory_cache, cache_dir>>

CallSet(p) ==
    /\ Idle(p)
    /\ served < MaxCalls
    /\ \E key \in Keys, entry \in CallEntries :
          /\ loc' = [loc EXCEPT ![p] = [LocInit EXCEPT !.op = "set", !.key = key,
                                                       !.entry = Some(entry)]]
          /\ last_used' = [last_used EXCEPT ![key] = served + 1]
    /\ pc' = [pc EXCEPT ![p] = "set"]
    /\ prev' = [prev EXCEPT ![p] = Finished(p)]
    /\ served' = served + 1
    /\ UNCHANGED <<memory_cache, cache_dir>>

(***************************************************************************)
(* HTTP as the proxy sees it.  A Range header value is the sequence of the *)
(* numbers in it: <<a, b>> is "bytes=a-b", <<a>> is "bytes=a-".            *)
(***************************************************************************)
Headers(ct, cl, cr) == [content_type |-> ct, content_length |-> cl, content_range |-> cr]
NoHeaders == Headers(None, None, None)

\* hyper::Response as far as the proxy reads or builds it
HttpResponse(status, headers, body) ==
    [kind |-> "response", status |-> status, headers |-> headers, body |-> body]
\* Err(e) of handle_request
Failure(why) ==
    [kind |-> "error", status |-> 0, headers |-> NoHeaders, body |-> <<why>>]
\* a panic of the task that serves the request
Panic == [kind |-> "panic", status |-> 0, headers |-> NoHeaders, body |-> <<>>]

\* StatusCode::is_success
IsSuccess(status) == status >= 200 /\ status < 300

\* a test that also takes 200 for partial content: C19 has to tell it from the
\* code's
IsPartialContentOrOk(status) == status = 206 \/ status = 200

\* range.rs:59 and server.rs:102: resp.status() == StatusCode::PARTIAL_CONTENT
IsPartialContent(status) == status = 206

(***************************************************************************)
(* Origin: every uri names a fixed resource.  To a GET with a Range header *)
(* origin answers as RFC 7233 lets it: 206 with the range clipped to the   *)
(* resource, 416 when the range starts past its end, 200 with the whole    *)
(* resource when it ignores the header or the header is no valid range, or *)
(* a server error.  To a GET without a Range header it answers 200 or a    *)
(* server error; handle_request also provides for a 206 there              *)
(* (server.rs:100), so that origin may answer 206 with any tail of the     *)
(* resource.                                                               *)
(* Content-Length is optional on a 200.  To a HEAD origin answers 200 with *)
(* or without Content-Length, or 405 with an empty body.                   *)
(***************************************************************************)
Uris == {1, 2}

\* utils.rs:10-14: SHA-256 of the uri, hex-encoded (injective on the uris here)
generate_cache_key(uri) == uri

Size(uri) == IF uri = 1 THEN MAX_FILE_SIZE + 2 ELSE 2
Resource(uri) == [i \in 1 .. Size(uri) |-> 10 * uri + (i - 1)]
ResourceType(uri) == IF uri = 1 THEN Some("video/mp4") ELSE None

\* 206 with bytes first..last of the resource
Partial(uri, first, last) ==
    HttpResponse(206,
        Headers(ResourceType(uri), Some(last - first + 1), Some(<<first, last, Size(uri)>>)),
        Bytes(Resource(uri), first, last))

\* 200 with the whole resource
Whole(uri) ==
    {HttpResponse(200, Headers(ResourceType(uri), cl, None), Resource(uri)) :
         cl \in {None, Some(Size(uri))}}

ServerError == HttpResponse(500, NoHeaders, <<>>)

OriginGet(uri, range) ==
    LET T == Size(uri)
        first == IF Len(range) >= 1 THEN range[1] ELSE 0
        last == IF Len(range) = 2 THEN Min(range[2], T - 1) ELSE T - 1
    IN  Whole(uri) \cup {ServerError} \cup
        (IF Len(range) = 0
         THEN {Partial(uri, i, T - 1) : i \in 0 .. (T - 1)}
         ELSE IF Len(range) = 2 /\ range[1] > range[2]
              THEN {}
              ELSE IF first >= T
                   THEN {HttpResponse(416, NoHeaders, <<>>)}
                   ELSE {Partial(uri, first, last)})

OriginHead(uri) ==
    {HttpResponse(200, Headers(ResourceType(uri), cl, None), <<>>) :
         cl \in {None, Some(Size(uri))}}
    \cup {HttpResponse(405, Headers(None, Some(0), None), <<>>)}

OriginResponses(uri, freq) ==
    IF freq.method = "HEAD" THEN OriginHead(uri) ELSE OriginGet(uri, freq.range)

(***************************************************************************)
(* utils.rs: parse_range                                                   *)
(***************************************************************************)
\* utils.rs:16-22: both numbers must parse; "bytes=a-" has no second number
parse_range(h) == IF Len(h) = 2 THEN Some(<<h[1], h[2]>>) ELSE None

(***************************************************************************)
(* handler/response.rs                                                     *)
(***************************************************************************)
\* response.rs:18-37: the total of Content-Range, else Content-Length
TotalSizeOf(headers) ==
    IF IsSome(headers.content_range)
    THEN Some(Unwrap(headers.content_range)[3])
    ELSE headers.content_length

\* a helper that trusts Content-Range only: C8 has to tell it from the code's
check_response_complete_range_only(headers, content_length) ==
    /\ IsSome(headers.content_range)
    /\ content_length = Unwrap(headers.content_range)[3]

\* response.rs:40-58
check_response_complete(headers, content_length) ==
    IF IsSome(headers.content_range)
    THEN content_length = Unwrap(headers.content_range)[3]
    ELSE IF IsSome(headers.content_length)
         THEN content_length = Unwrap(headers.content_length)
         ELSE TRUE

(***************************************************************************)
(* The end of a call, and the calls into the store and into fetch.         *)
(***************************************************************************)
\* handle_request returns: the locals of the functions it ran are dropped
Finish(p, l, response) ==
    /\ pc' = [pc EXCEPT ![p] = "done"]
    /\ loc' = [loc EXCEPT ![p] = [l EXCEPT !.response = Some(response),
                                           !.freq = None, !.fret = "done",
                                           !.retries = 0, !.resp = None,
                                           !.kept = None, !.total = 0,
                                           !.ret = "done"]]

\* cache.set(cache_key, entry).await
CallCacheSet(p, l, entry, ret) ==
    /\ pc' = [pc EXCEPT ![p] = "set"]
    /\ loc' = [loc EXCEPT ![p] = [l EXCEPT !.entry = Some(entry), !.ret = ret,
                                           !.resp = None, !.total = 0]]

\* fetch_with_retry(&client, &request).await
CallFetch(p, l, method, range, fret) ==
    LET freq == [method |-> method, range |-> range] IN
    /\ pc' = [pc EXCEPT ![p] = "fetch"]
    /\ loc' = [loc EXCEPT ![p] = [l EXCEPT !.freq = Some(freq), !.fret = fret,
                                           !.retries = 0, !.attempts = 0,
                                           !.sleeps = 0, !.resp = None]]

(***************************************************************************)
(* utils.rs: fetch_with_retry                                              *)
(***************************************************************************)
\* a loop that gives up one failure later: C9 has to tell it from the code's
RetriesExhaustedLate(retries) == retries > MAX_RETRIES

\* utils.rs:40-48: retries >= MAX_RETRIES
RetriesExhausted(retries) == retries >= MAX_RETRIES

\* one entry of origin_log: the request a fetch sent, the code that waits for
\* the answer, and what came back
Exchange(l, r) ==
    [method |-> Unwrap(l.freq).method, range |-> Unwrap(l.freq).range,
     via |-> l.fret, resp |-> r]

\* utils.rs:28-52: one turn of the loop: the attempt returns a response, or it
\* fails (a transport error or a timeout) and either the error returns, once
\* the retries are used up, or retries is incremented and the delay is slept
FetchAttempt(p) ==
    /\ pc[p] = "fetch"
    /\ \/ \E r \in OriginResponses(loc[p].uri, Unwrap(loc[p].freq)) :
             /\ pc' = [pc EXCEPT ![p] = loc[p].fret]
             /\ loc' = [loc EXCEPT ![p].resp = Some(r), ![p].retries = 0,
                                   ![p].attempts = 0, ![p].sleeps = 0,
                                   ![p].freq = None, ![p].fret = "done",
                                   ![p].origin_log = Append(@, Exchange(loc[p], r))]
       \/ \E why \in {"transport", "timeout"} :
             LET l == [loc[p] EXCEPT !.attempts = @ + 1] IN
             IF RetriesExhausted(loc[p].retries)
             THEN Finish(p, [l EXCEPT !.origin_log = Append(@, Exchange(l, Failure(why)))],
                         Failure(why))
             ELSE /\ pc' = [pc EXCEPT ![p] = "fetch"]
                  /\ loc' = [loc EXCEPT ![p] = [l EXCEPT !.retries = @ + 1,
                                                         !.sleeps = @ + 1]]
    /\ UNCHANGED <<memory_cache, cache_dir, prev, last_used, served>>

(***************************************************************************)
(* handler/range.rs: handle_range_request                                  *)
(***************************************************************************)
\* Bytes::slice(start..end + 1) and new_content[start..=end] panic unless
\* start <= end + 1 <= len
SlicePanics(len, start, end) == start > end + 1 \/ end + 1 > len

\* a test that sends a range ending at the last cached byte to origin: C7 has
\* to tell it from the code's
RangeCoveredShort(end, cached_len) == end + 1 < cached_len

\* range.rs:24: the requested range lies in the cached bytes
RangeCovered(end, cached_len) == end <= cached_len

\* range.rs:44-53 and server.rs:90-99: the request is built with its own Range
\* header, then its header map is replaced by a clone of the inbound one
OverrideHeaders(built_range, inbound_range) == inbound_range

\* range.rs:86: end == new_content.len() as u64 - 1 (false when 0 - 1 wraps)
ExtensionComplete(end, len) == len > 0 /\ end = len - 1

\* a response whose slice leaves out the byte at end: C4 has to tell it from
\* the code's
RangeResponseHalfOpen(content, content_type, start, end) ==
    [kind |-> "response", status |-> 206,
     headers |-> [content_type |-> Some(content_type), content_length |-> None,
                  content_range |-> Some(<<start, end, Len(content)>>)],
     body |-> SubSeq(content, start + 1, end)]

\* range.rs:30-41 and range.rs:94-108: 206 with the slice and its Content-Range
RangeResponse(content, content_type, start, end) ==
    HttpResponse(206, Headers(Some(content_type), None, Some(<<start, end, Len(content)>>)),
                 Bytes(content, start, end))

\* server.rs:33-43 and server.rs:61-72: 200 with the cached content
CachedResponse(entry) ==
    HttpResponse(200, Headers(Some(entry.meta.content_type), None, None), entry.content)

\* range.rs:94-108
RangeRespond(p, l, new_content) ==
    LET rg == Unwrap(parse_range(l.range)) IN
    IF SlicePanics(Len(new_content), rg[1], rg[2])
    THEN Finish(p, l, Panic)
    ELSE Finish(p, l, RangeResponse(new_content, Unwrap(l.got).meta.content_type,
                                    rg[1], rg[2]))

\* range.rs:20-56
HandleRange(p, l) ==
    LET cached == Unwrap(l.got)
        cached_len == Len(cached.content)
        rg == Unwrap(parse_range(l.range))
    IN  IF RangeCovered(rg[2], cached_len)
        THEN RangeRespond(p, l, cached.content)
        ELSE CallFetch(p, l, "GET", OverrideHeaders(<<cached_len, rg[2]>>, l.range),
                       "rng_fetched")

\* range.rs:58-113: the answer to the extension fetch
RngFetched(p) ==
    /\ pc[p] = "rng_fetched"
    /\ LET l == loc[p]
           r == Unwrap(l.resp)
           cached == Unwrap(l.got)
           rg == Unwrap(parse_range(l.range))
           new_content == cached.content \o r.body
       IN  IF IsPartialContent(r.status)
           THEN \/ Finish(p, l, Failure("stream"))
                \/ IF Len(new_content) <= MAX_FILE_SIZE
                   THEN \/ /\ Len(new_content) = 0     \* 0 - 1 with overflow checks
                           /\ Finish(p, l, Panic)
                        \/ CallCacheSet(p, l,
                               CacheEntry(new_content,
                                   CacheMeta(cached.meta.content_type,
                                             ExtensionComplete(rg[2], Len(new_content)),
                                             Some(Len(new_content)))),
                               "rng_stored")
                   ELSE RangeRespond(p, l, new_content)
           ELSE Finish(p, l, r)
    /\ UNCHANGED <<memory_cache, cache_dir, prev, last_used, served>>

\* range.rs:90-108: set(..).await? then the response
RngStored(p) ==
    /\ pc[p] = "rng_stored"
    /\ IF loc[p].set_ok
       THEN RangeRespond(p, loc[p], Unwrap(loc[p].entry).content)
       ELSE Finish(p, loc[p], Failure("cache"))
    /\ UNCHANGED <<memory_cache, cache_dir, prev, last_used, served>>

(***************************************************************************)
(* server.rs: fetch_and_cache_full_response                                *)
(***************************************************************************)
\* server.rs:163: the inbound request is sent as it came
FullFetch(p, l) == CallFetch(p, l, "GET", l.range, "ff_fetched")

\* server.rs:164-189 and 213-217: the answer to the full fetch
FfFetched(p) ==
    /\ pc[p] = "ff_fetched"
    /\ LET l == loc[p]
           r == Unwrap(l.resp)
       IN  IF IsSuccess(r.status)
           THEN \/ Finish(p, l, Failure("stream"))
                \/ IF Len(r.body) > MAX_FILE_SIZE
                   THEN \E cut \in (MAX_FILE_SIZE + 1) .. Len(r.body) :
                            Finish(p, l, HttpResponse(r.status, NoHeaders,
                                                      SubSeq(r.body, 1, cut)))
                   ELSE CallFetch(p, [l EXCEPT !.kept = l.resp], "HEAD", None, "ff_head")
           ELSE Finish(p, l, r)
    /\ UNCHANGED <<memory_cache, cache_dir, prev, last_used, served>>

\* server.rs:169-173
ContentTypeOf(headers) ==
    IF IsSome(headers.content_type)
    THEN Unwrap(headers.content_type)
    ELSE "application/octet-stream"

\* server.rs:191-212: the entry, once the HEAD probe of get_total_size answered
FfHead(p) ==
    /\ pc[p] = "ff_head"
    /\ LET l == loc[p]
           r == Unwrap(l.kept)
           probed == TotalSizeOf(Unwrap(l.resp).headers)
           total_size == IF IsSome(probed) THEN probed ELSE Some(Len(r.body))
       IN  CallCacheSet(p, l,
               CacheEntry(r.body,
                   CacheMeta(ContentTypeOf(r.headers),
                             check_response_complete(r.headers, Len(r.body)),
                             total_size)),
               "ff_stored")
    /\ UNCHANGED <<memory_cache, cache_dir, prev, last_used, served>>

\* server.rs:212-217
FfStored(p) ==
    /\ pc[p] = "ff_stored"
    /\ LET r == Unwrap(loc[p].kept) IN
       IF loc[p].set_ok
       THEN Finish(p, loc[p], HttpResponse(r.status, r.headers, r.body))
       ELSE Finish(p, loc[p], Failure("cache"))
    /\ UNCHANGED <<memory_cache, cache_dir, prev, last_used, served>>

(***************************************************************************)
(* server.rs: handle_request                                               *)
(***************************************************************************)
\* server.rs:69-101: the incomplete entry once total_size is known
Complete(p, l, total_size) ==
    LET cached == Unwrap(l.got)
        cached_len == Len(cached.content)
    IN  IF total_size > 0
        THEN IF cached_len >= total_size
             THEN Finish(p, l, CachedResponse(cached))
             ELSE CallFetch(p, [l EXCEPT !.total = total_size], "GET",
                            OverrideHeaders(<<cached_len, total_size - 1>>, l.range),
                            "cm_fetched")
        ELSE FullFetch(p, l)

\* server.rs:22-68: after cache.get
Dispatch(p) ==
    /\ pc[p] = "dispatch"
    /\ LET l == loc[p] IN
       IF IsSome(l.got)
       THEN IF IsSome(l.range) \/ Len(l.range) > 1
            THEN IF IsSome(parse_range(l.range))
                 THEN HandleRange(p, l)
                 ELSE FullFetch(p, l)
            ELSE IF Unwrap(l.got).meta.is_complete
                 THEN Finish(p, l, CachedResponse(Unwrap(l.got)))
                 ELSE IF IsSome(Unwrap(l.got).meta.total_size)
                      THEN Complete(p, l, Unwrap(Unwrap(l.got).meta.total_size))
                      ELSE CallFetch(p, l, "HEAD", None, "cm_head")
       ELSE FullFetch(p, l)
    /\ UNCHANGED <<memory_cache, cache_dir, prev, last_used, served>>

\* server.rs:64-68: get_total_size(..).await?.unwrap_or(0).  Every entry the
\* proxy writes has total_size = Some(..) (server.rs:128, server.rs:195-197,
\* range.rs:87), so no behaviour from an empty cache directory gets here and
\* the step is not among those of RequestStep.
CmHead(p) ==
    /\ pc[p] = "cm_head"
    /\ LET probed == TotalSizeOf(Unwrap(loc[p].resp).headers) IN
       Complete(p, loc[p], IF IsSome(probed) THEN Unwrap(probed) ELSE 0)
    /\ UNCHANGED <<memory_cache, cache_dir, prev, last_used, served>>

\* a test that lets one byte too many through: C12 has to tell it from the
\* code's
MergeOverflowsByTwo(cached_len, received, total_size) ==
    cached_len + received > total_size + 1

\* server.rs:109: (cached_len + remaining_data.len()) > total_size
MergeOverflows(cached_len, received, total_size) ==
    cached_len + received > total_size

\* server.rs:102-150: the answer to the completion fetch
CmFetched(p) ==
    /\ pc[p] = "cm_fetched"
    /\ LET l == loc[p]
           r == Unwrap(l.resp)
           cached == Unwrap(l.got)
       IN  IF IsPartialContent(r.status)
           THEN \/ Finish(p, l, Failure("stream"))
                \/ IF MergeOverflows(Len(cached.content), Len(r.body), l.total)
                   THEN FullFetch(p, l)
                   ELSE CallCacheSet(p, l,
                            CacheEntry(cached.content \o r.body,
                                CacheMeta(cached.meta.content_type, TRUE, Some(l.total))),
                            "cm_stored")
           ELSE FullFetch(p, l)
    /\ UNCHANGED <<memory_cache, cache_dir, prev, last_used, served>>

\* server.rs:131-148
CmStored(p) ==
    /\ pc[p] = "cm_stored"
    /\ IF loc[p].set_ok
       THEN Finish(p, loc[p],
                HttpResponse(200,
                    Headers(Some(Unwrap(loc[p].got).meta.content_type), None, None),
                    Unwrap(loc[p].entry).content))
       ELSE Finish(p, loc[p], Failure("cache"))
    /\ UNCHANGED <<memory_cache, cache_dir, prev, last_used, served>>

\* the inbound requests: a uri, and no Range header, "bytes=a-" or "bytes=a-b"
Offsets == 0 .. MaxOffset
RangeHeaders ==
    {None} \cup {<<1>>} \cup {<<a, b>> : a \in Offsets, b \in Offsets}

\* main.rs:23-25: hyper hands an inbound request to handle_request
Start(p) ==
    /\ Idle(p)
    /\ served < MaxRequests
    /\ \E uri \in Uris, range \in RangeHeaders :
          loc' = [loc EXCEPT ![p] = [LocInit EXCEPT !.op = "request", !.uri = uri,
                                         !.key = generate_cache_key(uri),
                                         !.range = range, !.ret = "dispatch"]]
    /\ pc' = [pc EXCEPT ![p] = "get"]
    /\ served' = served + 1
    /\ UNCHANGED <<memory_cache, cache_dir, prev, last_used>>

(***************************************************************************)
(* ProxyCache::new (cache.rs:32-43): an empty memory tier over the cache   *)
(* directory.                                                              *)
(***************************************************************************)
Init ==
    /\ memory_cache = <<>>
    /\ cache_dir = [k \in Keys |-> NoFiles]
    /\ pc = [p \in Procs |-> "idle"]
    /\ loc = [p \in Procs |-> LocInit]
    /\ prev = [p \in Procs |-> [op |-> "none", key |-> 0, entry |-> None,
                                 got |-> None, ok |-> TRUE]]
    /\ last_used = [k \in Keys |-> 0]
    /\ served = 0

CacheStep(p) ==
    \/ GetMemory(p)
    \/ GetExists(p)
    \/ GetReadMeta(p)
    \/ GetReadContent(p)
    \/ GetPromote(p)
    \/ SetMemory(p)
    \/ SetWriteContent(p)
    \/ SetWriteMeta(p)

\* the store under one caller at a time
NextCache == \E p \in SeqProcs : CallGet(p) \/ CallSet(p) \/ CacheStep(p)

SpecCache == Init /\ [][NextCache]_vars

(***************************************************************************)
(* The store over a cache directory that an earlier run, a failed write or *)
(* somebody else left in any state: per key no files, the blob without its *)
(* .meta record, the record without the blob, the blob with a record that  *)
(* is no JSON of CacheMeta, or a whole entry.  ProxyCache::new             *)
(* (cache.rs:32-43) reads nothing of it.  A behaviour runs MaxDamagedCalls *)
(* calls.                                                                  *)
(***************************************************************************)
\* a .meta record cut short by a write that did not finish
TornJson == <<"text/plain">>

LeftFiles ==
    LET whole == CacheEntry(<<1>>, CacheMeta("text/plain", TRUE, Some(1))) IN
    { NoFiles,
      [blob |-> Some(whole.content), meta |-> None],
      [blob |-> None, meta |-> Some(ToJson(whole.meta))],
      [blob |-> Some(whole.content), meta |-> Some(TornJson)],
      [blob |-> Some(whole.content), meta |-> Some(ToJson(whole.meta))] }

InitDamaged ==
    /\ memory_cache = <<>>
    /\ cache_dir \in [Keys -> LeftFiles]
    /\ pc = [p \in Procs |-> "idle"]
    /\ loc = [p \in Procs |-> LocInit]
    /\ prev = [p \in Procs |-> [op |-> "none", key |-> 0, entry |-> None,
                                 got |-> None, ok |-> TRUE]]
    /\ last_used = [k \in Keys |-> 0]
    /\ served = MaxCalls - MaxDamagedCalls

SpecDamaged == InitDamaged /\ [][NextCache]_vars

(***************************************************************************)
(* The store under two callers at once: handle_request runs in one task    *)
(* per connection and every task calls get and set on the one ProxyCache   *)
(* (main.rs:16-25).  The memory tier is under a lock, the files are not:   *)
(* the tasks interleave at every .await of get and set.  The behaviours    *)
(* start with an empty memory tier over a cache directory that holds one   *)
(* entry, as after a restart, and run MaxStoreRaceCalls calls.             *)
(***************************************************************************)
\* the entry set(StoreRaceKey, ..) wrote before the restart
StoreRaceEntry == CacheEntry(<<1>>, CacheMeta("text/plain", TRUE, Some(1)))

StoreRaceKey == CHOOSE k \in Keys : \A j \in Keys : k <= j

InitStoreRace ==
    /\ memory_cache = <<>>
    /\ cache_dir = [k \in Keys |->
                       IF k = StoreRaceKey
                       THEN [blob |-> Some(StoreRaceEntry.content),
                             meta |-> Some(ToJson(StoreRaceEntry.meta))]
                       ELSE NoFiles]
    /\ pc = [p \in Procs |-> "idle"]
    /\ loc = [p \in Procs |-> LocInit]
    /\ prev = [p \in Procs |-> [op |-> "none", key |-> 0, entry |-> None,
                                 got |-> None, ok |-> TRUE]]
    /\ last_used = [k \in Keys |-> 0]
    /\ served = MaxCalls - MaxStoreRaceCalls

NextStoreRace == \E p \in Procs : CallGet(p) \/ CallSet(p) \/ CacheStep(p)

SpecStoreRace == InitStoreRace /\ [][NextStoreRace]_vars

\* main.rs:13-16: the process starts again: ProxyCache::new builds an empty
\* memory tier over the cache directory the last run left
Restart ==
    /\ \A p \in Procs : Idle(p)
    /\ memory_cache # <<>>
    /\ memory_cache' = <<>>
    /\ pc' = [p \in Procs |-> "idle"]
    /\ loc' = [p \in Procs |-> LocInit]
    /\ UNCHANGED <<cache_dir, prev, last_used, served>>

RequestStep(p) ==
    \/ Start(p)
    \/ Dispatch(p)
    \/ RngFetched(p)
    \/ RngStored(p)
    \/ CmFetched(p)
    \/ CmStored(p)
    \/ FfFetched(p)
    \/ FfHead(p)
    \/ FfStored(p)
    \/ FetchAttempt(p)

\* the proxy serving one inbound request at a time
Next == Restart \/ \E p \in SeqProcs : RequestStep(p) \/ CacheStep(p)

Spec == Init /\ [][Next]_vars

(***************************************************************************)
(* The proxy serving inbound requests concurrently (main.rs:23-25: hyper   *)
(* spawns a task for every connection, all sharing one Arc<ProxyCache>).   *)
(* The tasks interleave at every .await.  The behaviours start where the   *)
(* sequential proxy is after it served `Range: bytes=0-0` for the large    *)
(* resource from an empty cache and was restarted: the cache directory     *)
(* holds the first byte as an incomplete entry.  The requests are for that *)
(* resource and carry a Range header.                                      *)
(***************************************************************************)
RaceUri == CHOOSE uri \in Uris : Size(uri) > MAX_FILE_SIZE

\* server.rs:191-212 for the answer 206 with bytes 0-0 and a HEAD answer that
\* gives the size
RaceEntry ==
    CacheEntry(Bytes(Resource(RaceUri), 0, 0),
               CacheMeta(ContentTypeOf(Partial(RaceUri, 0, 0).headers), FALSE,
                         Some(Size(RaceUri))))

\* "bytes=a-b" with a <= b, and "bytes=1-", which parse_range rejects
RaceRanges == {<<1>>} \cup UNION {{<<a, b>> : a \in 0 .. b} : b \in 0 .. MaxRaceOffset}

\* the cache directory the proxy starts on
RaceDir ==
    [k \in Keys |->
        IF k = generate_cache_key(RaceUri)
        THEN [blob |-> Some(RaceEntry.content), meta |-> Some(ToJson(RaceEntry.meta))]
        ELSE NoFiles]

InitRace ==
    /\ memory_cache = <<>>
    /\ cache_dir = RaceDir
    /\ pc = [p \in Procs |-> "idle"]
    /\ loc = [p \in Procs |-> LocInit]
    /\ prev = [p \in Procs |-> [op |-> "none", key |-> 0, entry |-> None,
                                 got |-> None, ok |-> TRUE]]
    /\ last_used = [k \in Keys |-> 0]
    /\ served = 0

\* main.rs:23-25: hyper hands an inbound request to a task of its own; a task
\* serves one request
StartRace(p) ==
    /\ pc[p] = "idle"
    /\ \E range \in RaceRanges :
          loc' = [loc EXCEPT ![p] = [LocInit EXCEPT !.op = "request", !.uri = RaceUri,
                                         !.key = generate_cache_key(RaceUri),
                                         !.range = range, !.ret = "dispatch"]]
    /\ pc' = [pc EXCEPT ![p] = "get"]
    /\ served' = served + 1
    /\ UNCHANGED <<memory_cache, cache_dir, prev, last_used>>

\* the steps these requests take: from "bytes=1-" origin answers more than
\* MAX_FILE_SIZE bytes or no success, so the full fetch ends in FfFetched
RaceStep(p) ==
    \/ StartRace(p)
    \/ Dispatch(p)
    \/ FetchAttempt(p)
    \/ RngFetched(p)
    \/ RngStored(p)
    \/ FfFetched(p)

NextRace == \E p \in Procs : RaceStep(p) \/ CacheStep(p)

SpecRace == InitRace /\ [][NextRace]_vars

(***************************************************************************)
(* The store as a caller sees it.                                          *)
(***************************************************************************)
\* cache.rs:52-66: the entry the durable tier yields for a key, if any
DiskEntry(k) ==
    LET files == cache_dir[k]
        meta == IF IsSome(files.meta) THEN FromJson(Unwrap(files.meta)) ELSE None
    IN  IF IsSome(files.blob) /\ IsSome(meta)
        THEN Some(CacheEntry(Unwrap(files.blob), Unwrap(meta)))
        ELSE None

\* cache.rs:45-71: what get(k) returns when it runs alone from this state
Lookup(k) ==
    IF LruContains(memory_cache, k) THEN LruPeek(memory_cache, k) ELSE DiskEntry(k)

MemKeys(cache) == {cache[i].key : i \in 1 .. Len(cache)}

\* task p has returned from handle_request
Done(p) == pc[p] = "done" /\ loc[p].op = "request"

(***************************************************************************)
(* C1: after set(key, entry) has returned Ok, a get(key) with no set for   *)
(* that key in between returns an entry equal to the stored one in         *)
(* content, content_type, is_complete and total_size, from whichever tier  *)
(* it is served.                                                           *)
(***************************************************************************)
C1_RoundTrip ==
    \A p \in Procs :
        (/\ pc[p] = "done"
         /\ loc[p].op = "get"
         /\ prev[p].op = "set"
         /\ prev[p].ok
         /\ prev[p].key = loc[p].key)
        => loc[p].got = prev[p].entry

(***************************************************************************)
(* C10: the memory tier never holds more than MAX_CACHE_SIZE entries; the  *)
(* entry an insertion drops is the one whose last get or set lies furthest *)
(* back, and dropping it leaves its durable copy as it was.                *)
(***************************************************************************)
C10_LruEviction ==
    [][/\ Len(memory_cache') <= MAX_CACHE_SIZE
       /\ \A k \in MemKeys(memory_cache) \ MemKeys(memory_cache') :
             /\ \A j \in MemKeys(memory_cache) : last_used[k] <= last_used[j]
             /\ cache_dir'[k] = cache_dir[k]]_vars

(***************************************************************************)
(* C2: with a cached entry holding the first c bytes of a resource of T    *)
(* bytes, is_complete = false and total_size = T, a request bytes=a-b with *)
(* a <= b and c < b < T - 1 makes the proxy fetch bytes c..b from origin,  *)
(* store an entry whose content is the first b + 1 bytes of the resource   *)
(* with is_complete = false (when b + 1 bytes may be stored), and answer   *)
(* 206 with bytes a..b of the resource.  Origin answers every fetch 206    *)
(* and nothing fails on the way.  (The claim also covers b = c.)           *)
(***************************************************************************)
C2_RangeExtension ==
    \A p \in Procs :
        LET l == loc[p]
            R == Resource(l.uri)
            cached == Unwrap(l.got)
            c == Len(cached.content)
            a == l.range[1]
            b == l.range[2]
        IN  (/\ Done(p)
             /\ IsSome(l.got)
             /\ Len(l.range) = 2
             /\ cached.content = SubSeq(R, 1, c)
             /\ ~cached.meta.is_complete
             /\ cached.meta.total_size = Some(Size(l.uri))
             /\ a <= b /\ c < b /\ b < Size(l.uri) - 1
             /\ Unwrap(l.response).kind # "error"
             /\ \A i \in 1 .. Len(l.origin_log) : l.origin_log[i].resp.status = 206)
            => /\ Len(l.origin_log) = 1
               /\ l.origin_log[1].method = "GET"
               /\ l.origin_log[1].range = <<c, b>>
               /\ b + 1 <= MAX_FILE_SIZE
                    => /\ IsSome(Lookup(l.key))
                       /\ Unwrap(Lookup(l.key)).content = SubSeq(R, 1, b + 1)
                       /\ ~Unwrap(Lookup(l.key)).meta.is_complete
               /\ Unwrap(l.response).kind = "response"
               /\ Unwrap(l.response).status = 206
               /\ Unwrap(l.response).body = Bytes(R, a, b)

(***************************************************************************)
(* C3: every stored entry whose total_size is known has at most total_size *)
(* bytes of content, and exactly total_size bytes when it is complete; the *)
(* durable tier is looked at while no set is writing.                      *)
(***************************************************************************)
EntryConsistent(e) ==
    IsSome(e.meta.total_size)
    => /\ Len(e.content) <= Unwrap(e.meta.total_size)
       /\ e.meta.is_complete => Len(e.content) = Unwrap(e.meta.total_size)

C3_EntryInvariant ==
    /\ \A i \in 1 .. Len(memory_cache) : EntryConsistent(memory_cache[i].entry)
    /\ \A k \in Keys :
          (/\ \A p \in Procs : pc[p] \notin {"set_content", "set_meta"}
           /\ IsSome(DiskEntry(k)))
          => EntryConsistent(Unwrap(DiskEntry(k)))

(***************************************************************************)
(* C4: with a cached entry of L bytes, a request bytes=a-b with            *)
(* 0 <= a <= b < L is answered 206 with exactly the bytes a..b of the      *)
(* cached content, b - a + 1 of them, and Content-Range a-b/L.             *)
(***************************************************************************)
C4_RangeFidelity ==
    \A p \in Procs :
        LET l == loc[p]
            content == Unwrap(l.got).content
            a == l.range[1]
            b == l.range[2]
            response == Unwrap(l.response)
        IN  (/\ Done(p)
             /\ IsSome(l.got)
             /\ Len(l.range) = 2
             /\ a <= b /\ b < Len(content))
            => /\ response.kind = "response"
               /\ response.status = 206
               /\ response.body = [i \in 1 .. (b - a + 1) |-> content[a + i]]
               /\ response.headers.content_range = Some(<<a, b, Len(content)>>)

C4_Witness ==
    \E p \in Procs :
        /\ Done(p)
        /\ IsSome(loc[p].got)
        /\ loc[p].range = <<0, 1>>
        /\ Len(Unwrap(loc[p].got).content) = 2
        /\ Unwrap(loc[p].response).status = 206
        /\ Len(Unwrap(loc[p].response).body) = 2

(***************************************************************************)
(* C5: a request whose cache write failed still answers the client with    *)
(* the content it fetched: the merged content on the completion path, the  *)
(* requested slice on the extension path, the origin body on a full fetch. *)
(***************************************************************************)
C5_WriteFailureTolerated ==
    \A p \in Procs :
        LET l == loc[p]
            written == Unwrap(l.entry).content
            rng == IsSome(l.got) /\ IsSome(parse_range(l.range))
        IN  (Done(p) /\ IsSome(l.entry) /\ ~l.set_ok)
            => /\ Unwrap(l.response).kind = "response"
               /\ Unwrap(l.response).body =
                      IF rng THEN Bytes(written, l.range[1], l.range[2]) ELSE written

(***************************************************************************)
(* C6: when the body of a full origin fetch is longer than MAX_FILE_SIZE,  *)
(* the client receives the whole body, the request writes no entry, and a  *)
(* get for the key afterwards returns none.                                *)
(***************************************************************************)
C6_OversizePassThrough ==
    \A p \in Procs :
        LET l == loc[p]
            x == l.origin_log[Len(l.origin_log)]
        IN  (/\ Done(p)
             /\ Len(l.origin_log) >= 1
             /\ x.via = "ff_fetched"
             /\ IsSuccess(x.resp.status)
             /\ Len(x.resp.body) > MAX_FILE_SIZE
             /\ Unwrap(l.response).kind # "error")
            => /\ Unwrap(l.response).body = x.resp.body
               /\ l.entry = None
               /\ Lookup(l.key) = None

(***************************************************************************)
(* C7: when a request bytes=a-b arrives while the entry of its key is      *)
(* complete, with total_size equal to its content length, and              *)
(* a <= b < total_size, then no step of the request, from its lookup to    *)
(* its dispatch, starts a fetch; the dispatch returns the response; and    *)
(* the entry get returns for the key and the durable tier stay what they   *)
(* were.                                                                   *)
(***************************************************************************)
\* task p is in cache.get(&cache_key) of handle_request, or right after it
Looking(p) ==
    /\ loc[p].op = "request"
    /\ pc[p] \in {"get", "get_exists", "get_meta", "get_read", "get_promote", "dispatch"}

CompleteFor(e, range) ==
    /\ e.meta.is_complete
    /\ e.meta.total_size = Some(Len(e.content))
    /\ Len(range) = 2
    /\ range[1] <= range[2]
    /\ range[2] < Len(e.content)

C7_NoRefetch ==
    [][\A p \in Procs :
          (/\ Looking(p)
           /\ IsSome(Lookup(loc[p].key))
           /\ CompleteFor(Unwrap(Lookup(loc[p].key)), loc[p].range))
          => /\ pc'[p] # "fetch"
             /\ pc[p] = "dispatch"
                  => /\ pc'[p] = "done"
                     /\ Unwrap(loc'[p].response).status = 206
             /\ loc'[p].origin_log = <<>>
             /\ Lookup(loc[p].key)' = Lookup(loc[p].key)
             /\ cache_dir' = cache_dir]_vars

C7_Witness ==
    \E p \in Procs :
        /\ Done(p)
        /\ IsSome(loc[p].got)
        /\ CompleteFor(Unwrap(loc[p].got), loc[p].range)
        /\ loc[p].range[2] = Len(Unwrap(loc[p].got).content) - 1
        /\ loc[p].origin_log = <<>>
        /\ Unwrap(loc[p].response).status = 206

(***************************************************************************)
(* C8: starting from an empty cache, a request without a Range header that *)
(* origin answers 200 with an n-byte body and Content-Length n leaves an   *)
(* entry with is_complete = true and total_size = n holding those n bytes; *)
(* with that entry, a request bytes=a-b with b < n is answered 206 with    *)
(* b - a + 1 bytes and without a request to origin.                        *)
(***************************************************************************)
\* the first exchange of the request is a GET answered 200 with the whole
\* resource and its Content-Length
FilledBy200(l) ==
    /\ l.range = None
    /\ Len(l.origin_log) >= 1
    /\ l.origin_log[1].method = "GET"
    /\ l.origin_log[1].resp =
           HttpResponse(200, Headers(ResourceType(l.uri), Some(Size(l.uri)), None),
                        Resource(l.uri))

\* the entry holds the whole resource and is marked complete
HoldsWhole(e, uri) == e.content = Resource(uri) /\ e.meta.is_complete

FetchFailed(l) ==
    /\ IsSome(l.response)
    /\ Unwrap(l.response).kind = "error"
    /\ Unwrap(l.response).body \in {<<"transport">>, <<"timeout">>}

C9_RetryBudget ==
    \A p \in Procs :
        /\ loc[p].attempts <= 1 + MAX_RETRIES
        /\ pc[p] = "fetch" => loc[p].sleeps = loc[p].attempts
        /\ (Done(p) /\ FetchFailed(loc[p]))
           => /\ loc[p].attempts = 1 + MAX_RETRIES
              /\ loc[p].sleeps = MAX_RETRIES

C9_Witness ==
    \E p \in Procs :
        /\ Done(p)
        /\ FetchFailed(loc[p])
        /\ loc[p].attempts = 1 + MAX_RETRIES
        /\ loc[p].sleeps = MAX_RETRIES

(***************************************************************************)
(* C11: on a cache hit, a request whose Range header does not parse as     *)
(* bytes=<start>-<end> is handled as the same request without a Range      *)
(* header: a complete entry is answered 200 from the cache with no request *)
(* to origin, and an incomplete entry whose total_size exceeds its content *)
(* takes the completion path (its first fetch is the completion fetch).    *)
(***************************************************************************)
\* the Range header is there and parse_range rejects it
Unparseable(range) == Len(range) >= 1 /\ ~IsSome(parse_range(range))

C11_UnparseableRangeIgnored ==
    \A p \in Procs :
        LET l == loc[p]
            cached == Unwrap(l.got)
        IN  (Done(p) /\ IsSome(l.got) /\ Unparseable(l.range))
            => /\ cached.meta.is_complete
                    => /\ l.origin_log = <<>>
                       /\ Unwrap(l.response).kind = "response"
                       /\ Unwrap(l.response).status = 200
                       /\ Unwrap(l.response).body = cached.content
               /\ (/\ ~cached.meta.is_complete
                   /\ IsSome(cached.meta.total_size)
                   /\ Len(cached.content) < Unwrap(cached.meta.total_size))
                    => /\ Len(l.origin_log) >= 1
                       /\ l.origin_log[1].via = "cm_fetched"

(***************************************************************************)
(* C12: in the completion of an incomplete entry, once the 206 body that   *)
(* origin streamed makes cached length + received exceed the declared      *)
(* total, the merge is abandoned: the request never reaches the write of   *)
(* the merged entry, the next thing it does is a full fetch (a GET without *)
(* the proxy's own Range header), the only entry it may write holds the    *)
(* body of that full fetch, and its response is the outcome of the full    *)
(* fetch.  A request that ends before the full fetch ended on a failure of *)
(* the stream.                                                             *)
(***************************************************************************)
\* the first exchange of the request is a completion fetch answered 206 with
\* more bytes than the declared total leaves room for
Overflowed(l) ==
    /\ l.op = "request"
    /\ IsSome(l.got)
    /\ Len(l.origin_log) >= 1
    /\ l.origin_log[1].via = "cm_fetched"
    /\ l.origin_log[1].resp.status = 206
    /\ IsSome(Unwrap(l.got).meta.total_size)
    /\ Len(Unwrap(l.got).content) + Len(l.origin_log[1].resp.body)
           > Unwrap(Unwrap(l.got).meta.total_size)

C12_OverflowAbandonsMerge ==
    \A p \in Procs :
        LET l == loc[p] IN
        Overflowed(l)
        => /\ pc[p] # "cm_stored"
           /\ (pc[p] = "fetch" /\ Len(l.origin_log) = 1)
                => /\ l.fret = "ff_fetched"
                   /\ l.freq = Some([method |-> "GET", range |-> l.range])
                   /\ l.range = None
           /\ Len(l.origin_log) >= 2
                => /\ l.origin_log[2].via = "ff_fetched"
                   /\ l.origin_log[2].method = "GET"
                   /\ l.origin_log[2].range = None
           /\ IsSome(l.entry)
                => /\ Len(l.origin_log) = 3
                   /\ IsSuccess(l.origin_log[2].resp.status)
                   /\ Unwrap(l.entry).content = l.origin_log[2].resp.body
           /\ (Done(p) /\ Len(l.origin_log) = 1)
                => Unwrap(l.response) = Failure("stream")
           /\ (Done(p) /\ Unwrap(l.response).kind = "response")
                => /\ Len(l.origin_log) >= 2
                   /\ Unwrap(l.response).status = l.origin_log[2].resp.status
                   /\ Len(l.origin_log[2].resp.body) <= MAX_FILE_SIZE
                        => Unwrap(l.response).body = l.origin_log[2].resp.body

C12_Witness ==
    \E p \in Procs :
        /\ Done(p)
        /\ Overflowed(loc[p])
        /\ Len(loc[p].origin_log) = 3
        /\ IsSome(loc[p].entry)
        /\ Unwrap(loc[p].response).status = 200
        /\ Lookup(loc[p].key) = loc[p].entry

(***************************************************************************)
(* C13: whenever the durable tier holds for a key no .meta record, a       *)
(* record that is no JSON of CacheMeta, or no content blob, get(key)       *)
(* returns no entry, raises nothing, and changes neither tier.             *)
(***************************************************************************)
\* the files of the key do not make an entry
Damaged(files) ==
    \/ ~IsSome(files.blob)
    \/ ~IsSome(files.meta)
    \/ Len(Unwrap(files.meta)) # 3

\* task p is in get(key)
Getting(p) ==
    /\ loc[p].op = "get"
    /\ pc[p] \in {"get", "get_exists", "get_meta", "get_read", "get_promote"}

\* the step of get leaves both tiers alone and, if it returns, returns None
MissUntouched(p) ==
    /\ memory_cache' = memory_cache
    /\ cache_dir' = cache_dir
    /\ pc'[p] \in {"get_exists", "get_meta", "get_read", "done"}
    /\ pc'[p] = "done" => loc'[p].got = None

RangedHit(p) ==
    /\ Done(p)
    /\ IsSome(loc[p].got)
    /\ IsSome(parse_range(loc[p].range))

C14_ExtensionFromCachedLen ==
    \A p \in Procs :
        RangedHit(p) =>
            LET l == loc[p]
                rg == Unwrap(parse_range(l.range))
                cached_len == Len(Unwrap(l.got).content)
            IN  rg[1] <= rg[2] =>
                    /\ (l.origin_log = <<>> /\ Unwrap(l.response).kind = "response")
                          => rg[2] < cached_len
                    /\ rg[2] >= cached_len
                          => /\ Len(l.origin_log) >= 1
                             /\ l.origin_log[1].via = "rng_fetched"
                             /\ Unwrap(l.response) # Panic


(***************************************************************************)
(* C15: every partial fetch carries the Range header the proxy built:      *)
(* bytes=cachedLen-end for a range extension, bytes=cachedLen-(total-1)    *)
(* for the completion of an entry asked for without a range; what the      *)
(* inbound request had in its Range header is not what origin receives.    *)
(* The code replaces the header map it built by a clone of the inbound one *)
(* (range.rs:53, server.rs:96).                                            *)
(***************************************************************************)
C15_PartialFetchRange ==
    \A p \in Procs :
        LET l == loc[p]
            cached_len == Len(Unwrap(l.got).content)
        IN  (l.op = "request" /\ IsSome(l.got) /\ Len(l.origin_log) >= 1)
            => /\ l.origin_log[1].via = "rng_fetched"
                    => l.origin_log[1].range
                         = <<cached_len, Unwrap(parse_range(l.range))[2]>>
               /\ l.origin_log[1].via = "cm_fetched"
                    => l.origin_log[1].range
                         = <<cached_len, Unwrap(Unwrap(l.got).meta.total_size) - 1>>


(***************************************************************************)
(* C16: on a cache miss, and whenever a request falls through to the full  *)
(* fetch, the request sent to origin has no Range header, whatever the     *)
(* inbound request had.  The code sends the inbound request as it came     *)
(* (server.rs:163), Range header included.                                 *)
(***************************************************************************)
C16_FullFetchUnranged ==
    \A p \in Procs :
        \A i \in 1 .. Len(loc[p].origin_log) :
            (loc[p].origin_log[i].via = "ff_fetched" /\ loc[p].origin_log[i].method = "GET")
            => loc[p].origin_log[i].range = None


(***************************************************************************)
(* C17: a request for bytes start-end that finds an entry, with            *)
(* start > end or with end beyond the last byte of the resource, ends in   *)
(* an error: no response body goes back, the handler does not panic, and   *)
(* no entry is written.  The code has no such check: parse_range accepts   *)
(* any two numbers and handle_range_request slices or extends with them.   *)
(***************************************************************************)
InvalidRange(start, end, uri) == start > end \/ end >= Size(uri)

C17_InvalidRangeRejected ==
    \A p \in Procs :
        RangedHit(p) =>
            LET l == loc[p]
                rg == Unwrap(parse_range(l.range))
            IN  InvalidRange(rg[1], rg[2], l.uri)
                => /\ Unwrap(l.response).kind = "error"
                   /\ l.entry = None


(***************************************************************************)
(* C18: two concurrent requests for one key that both read the same        *)
(* incomplete entry can both send an extension fetch and both write a      *)
(* merged entry; what the store holds is what was written last; and some   *)
(* interleaving loses the bytes the request with the longer extension      *)
(* added.  set writes the memory tier, the blob and the .meta record in    *)
(* three steps, so "written last" is said of each of them: whatever the    *)
(* other task wrote before, a write leaves the writer's entry in the       *)
(* memory tier, where get finds it, its content in the blob and its        *)
(* metadata in the record.  The existence half is the witness.             *)
(***************************************************************************)
\* the request of p sent an extension fetch, got 206 and wrote its merge
Extended(p) ==
    /\ Done(p)
    /\ IsSome(loc[p].got)
    /\ Len(loc[p].origin_log) = 1
    /\ loc[p].origin_log[1].via = "rng_fetched"
    /\ loc[p].origin_log[1].resp.status = 206
    /\ IsSome(loc[p].entry)
    /\ loc[p].set_ok

C18_LastWriterWins ==
    [][\A p \in Procs :
          LET l == loc[p] IN
          /\ (pc[p] = "set" /\ pc'[p] = "set_content")
                => Lookup(l.key)' = l.entry
          /\ (pc[p] = "set_content" /\ pc'[p] = "set_meta")
                => cache_dir'[l.key].blob = Some(Unwrap(l.entry).content)
          /\ (pc[p] = "set_meta" /\ pc'[p] # "set_meta" /\ loc'[p].set_ok)
                => cache_dir'[l.key].meta = Some(ToJson(Unwrap(l.entry).meta))]_vars

\* both requests read RaceEntry, both extended it, the one that asked for the
\* range ending later wrote first, and the store holds the other's merge
C18_Witness ==
    \E p \in Procs, q \in Procs :
        /\ p # q
        /\ Extended(p) /\ Extended(q)
        /\ loc[p].got = Some(RaceEntry) /\ loc[q].got = Some(RaceEntry)
        /\ Unwrap(parse_range(loc[q].range))[2] > Unwrap(parse_range(loc[p].range))[2]
        /\ Lookup(loc[p].key) = loc[p].entry
        /\ DiskEntry(loc[p].key) = loc[p].entry
        /\ \A i \in 1 .. Len(loc[q].origin_log[1].resp.body) :
              \A j \in 1 .. Len(Unwrap(loc[p].entry).content) :
                  Unwrap(loc[p].entry).content[j] # loc[q].origin_log[1].resp.body[i]


(***************************************************************************)
(* C19: when origin answers an extension fetch with a status other than    *)
(* 206, or a full fetch with a status that is no success, the client gets  *)
(* origin's response, status and headers as they came, and both tiers hold *)
(* exactly what they held before the request.  Stated for the first        *)
(* request a proxy serves after it started with an empty memory tier on    *)
(* RaceDir, where what the tiers held before is known.  The lookup of the  *)
(* request promotes the entry it finds in the cache directory into the     *)
(* memory tier, so the memory tier holds one entry more than before.       *)
(***************************************************************************)
\* the last answer origin gave the request is one the handler passes through
PassedThrough(l) ==
    /\ l.op = "request"
    /\ Len(l.origin_log) >= 1
    /\ LET e == l.origin_log[Len(l.origin_log)] IN
       /\ e.resp.kind = "response"
       /\ \/ e.via = "rng_fetched" /\ e.resp.status # 206
          \/ e.via = "ff_fetched" /\ ~IsSuccess(e.resp.status)

LastAnswer(l) == l.origin_log[Len(l.origin_log)].resp

C19_PassThroughFrame ==
    \A p \in Procs :
        (Done(p) /\ served = 1 /\ PassedThrough(loc[p]))
        => /\ loc[p].response = Some(LastAnswer(loc[p]))
           /\ memory_cache = <<>>
           /\ cache_dir = RaceDir

(***************************************************************************)
(* C19 as the code has it: the client gets origin's response as it came,   *)
(* the request never calls set, and no step it takes after its lookup      *)
(* changes either tier.  The lookup at its start is a get like any other:  *)
(* it makes the entry most recently used, or promotes it from the cache    *)
(* directory into the memory tier.                                         *)
(***************************************************************************)
\* task p takes a step of handle_request outside ProxyCache::get and set
HandlerStep(p) ==
    /\ loc[p].op = "request"
    /\ pc[p] \in {"dispatch", "fetch", "rng_fetched", "rng_stored", "ff_fetched",
                  "ff_head", "ff_stored", "cm_fetched", "cm_stored"}
    /\ pc'[p] # pc[p] \/ loc'[p] # loc[p]

C19_PassThroughWritesNothing ==
    [][\A p \in Procs :
          /\ HandlerStep(p) => UNCHANGED <<memory_cache, cache_dir>>
          /\ (HandlerStep(p) /\ pc'[p] = "done" /\ PassedThrough(loc'[p]))
                => /\ loc'[p].response = Some(LastAnswer(loc'[p]))
                   /\ loc'[p].entry = None]_vars

C19_Witness ==
    \E p \in Procs :
        /\ Done(p)
        /\ PassedThrough(loc[p])
        /\ LastAnswer(loc[p]).status = 200
        /\ loc[p].response = Some(LastAnswer(loc[p]))
        /\ LruContains(memory_cache, loc[p].key)


(***************************************************************************)
(* C20: in every reachable state the content of every stored entry, in     *)
(* the memory tier and in the cache directory, is a prefix of the resource *)
(* of its key: byte i of the content is byte i of the resource.  A ranged  *)
(* request with start > 0 on a cache miss is sent to origin with its Range *)
(* header and the bytes that come back are stored from offset 0.           *)
(***************************************************************************)
IsPrefix(content, resource) ==
    /\ Len(content) <= Len(resource)
    /\ \A i \in 1 .. Len(content) : content[i] = resource[i]

C20_ContentIsPrefix ==
    \A uri \in Uris :
        LET key == generate_cache_key(uri) IN
        /\ IsSome(LruPeek(memory_cache, key))
              => IsPrefix(Unwrap(LruPeek(memory_cache, key)).content, Resource(uri))
        /\ IsSome(DiskEntry(key))
              => IsPrefix(Unwrap(DiskEntry(key)).content, Resource(uri))


(***************************************************************************)
(* C22: while no set is in progress, every key the memory tier holds has   *)
(* there the entry the durable tier records for it, content and metadata,  *)
(* after any calls of get and set, a set whose file write fails and a set  *)
(* above the size threshold included.  set writes the memory tier first    *)
(* and returns on a failed write without taking the entry back; a set      *)
(* above the threshold writes the files and leaves the memory tier's older *)
(* entry.                                                                  *)
(***************************************************************************)
\* some task is inside ProxyCache::set
SetInProgress == \E p \in Procs : pc[p] \in {"set", "set_content", "set_meta"}

C22_TiersAgree ==
    ~SetInProgress
    => \A i \in 1 .. Len(memory_cache) :
           DiskEntry(memory_cache[i].key) = Some(memory_cache[i].entry)


(***************************************************************************)
(* C21: however a get(key) interleaves with concurrent set(key, ..) calls, *)
(* the entry it returns has the content and the metadata that one set call *)
(* wrote together (here: while every write of every set succeeds).  get    *)
(* reads the .meta record and then the blob, set writes the blob and then  *)
(* the record, and nothing keeps a set from writing between the two reads. *)
(***************************************************************************)
\* the entries a set call wrote: the one the directory starts with and the
\* ones the callers hand to set
WrittenEntries == {StoreRaceEntry} \cup CallEntries

C21_GetReturnsOneWrite ==
    \A p \in Procs :
        (/\ pc[p] = "done"
         /\ loc[p].op = "get"
         /\ IsSome(loc[p].got)
         /\ \A q \in Procs : loc[q].set_ok)
        => Unwrap(loc[p].got) \in WrittenEntries

====
